---- MODULE Spec2Model ----
(***************************************************************************)
(* Verification model of notify-rust's XDG notification server             *)
(* (src/xdg/server_zbus.rs) and of the dbus-rs client                      *)
(* (src/xdg/dbus_rs.rs).                                                   *)
(*                                                                         *)
(* Server side: every method call is a request record that walks through   *)
(* the body of NotificationServer::notify / ::stop one suspension point    *)
(* at a time; the auto-close task spawned by notify, the transport's reply *)
(* step and the main task blocked in start_with are separate processes.    *)
(***************************************************************************)
EXTENDS Integers, Sequences, FiniteSets, TLC

\* ------------------------------------------------------------------ bounds

\* Notify calls of one run of the main specification.
MaxNotify == 2
\* Stop calls of one run of the main specification.
MaxStop == 1
\* (tag, label) pairs of one action list.
MaxActions == 3
\* Entries of one raw_hints dictionary.
MaxHints == 2
\* Width of NotificationServer.count in the model (u32 in the source).
CountBits == 2
\* Width of the timeout argument in the model (i32 in the source).
I32Bits == 7
\* Width of timeout_before_close in the model (u64 in the source).
U64Bits == 14

\* --------------------------------------------------------------- constants

\* let minimum_timeout = 10; // ms
minimum_timeout == 10

\* CloseReason::Expired on the wire.
Expired == 1

CountModulus == 2 ^ CountBits
I32Min == 0 - 2 ^ (I32Bits - 1)
I32Max == 2 ^ (I32Bits - 1) - 1
U64Modulus == 2 ^ U64Bits

\* ------------------------------------------------------------------- state

VARIABLES
    count,            \* NotificationServer.count
    overflow_checks,  \* the build panics on integer overflow (debug) or wraps
    server_up,        \* the object server's executor is alive
    connected,        \* the bus connection is up
    reqs,             \* the method calls received so far, in arrival order
    writer,           \* the request holding the interface exclusively, or 0
    readers,          \* the requests holding the interface shared
    stop_notified,    \* the listener `stopped` of stop_listener is notified
    main_pc,          \* position of internal::start_with
    signals,          \* the signals emitted on the bus, in emission order
    sessions,         \* the client's runs of wait_for_action_signal
    codec,            \* one action list on its way from client to server
    bus               \* the message bus between the server and the client

vars == <<count, overflow_checks, server_up, connected, reqs, writer, readers,
          stop_notified, main_pc, signals, sessions, codec, bus>>

serverVars == <<count, overflow_checks, server_up, connected, reqs, writer,
                readers, stop_notified, main_pc, signals>>

clientVars == <<sessions, codec, bus>>

\* ------------------------------------------------------------ Action codec

Min(a, b) == IF a < b THEN a ELSE b

\* Option<T>: None is <<>>, Some(x) is <<x>>.
None == <<>>
Some(x) == <<x>>

\* raw.iter().map(Some)
MapSome(raw) == [i \in 1..Len(raw) |-> Some(raw[i])]

\* .chain(Some(None)): one more item, None, after the last
ChainNone(it) == Append(it, None)

\* .skip(n)
Skip(it, n) == IF Len(it) <= n THEN <<>> ELSE SubSeq(it, n + 1, Len(it))

\* a.zip(b): stops with the shorter of the two
Zip(a, b) == [i \in 1..Min(Len(a), Len(b)) |-> <<a[i], b[i]>>]

\* .filter_map(|(a, b)| b.map(|b| (a, b)))
RECURSIVE FilterMapSecond(_)
FilterMapSecond(z) ==
    IF z = <<>> THEN <<>>
    ELSE LET a == Head(z)[1]
             b == Head(z)[2]
         IN  (IF b = None THEN <<>> ELSE << <<a, b[1]>> >>)
                 \o FilterMapSecond(Tail(z))

\* Action::from_pair
from_pair(pair) == [tag |-> pair[1], description |-> pair[2]]

\* Action::from_vec
from_vec(raw) ==
    LET pairs == FilterMapSecond(Zip(raw, Skip(ChainNone(MapSome(raw)), 1)))
    IN  [i \in 1..Len(pairs) |-> from_pair(pairs[i])]

\* ------------------------------------------------------------------- hints

\* zvariant values of the types a hint entry may carry on the wire, the
\* payload in its printed form.
Value(t, v) == [t |-> t, v |-> v]

\* One entry (k, v) of the HashMap raw_hints.
HintEntry(k, v) == [key |-> k, value |-> v]

\* The value types Hint::from_zbus converts for a key: the type of the
\* standard hint of that name, a string or an integer for any other name.
HintValueTypes(k) ==
    CASE k = "urgency" -> {"U8"}
      [] k = "category" -> {"Str"}
      [] OTHER -> {"Str", "I32"}

\* Hint::from_zbus(&k, v.into()): Ok(hint) or Err(error)
from_zbus(k, v) ==
    IF v.t \in HintValueTypes(k)
    THEN [ok |-> TRUE, hint |-> <<[name |-> k, t |-> v.t, v |-> v.v]>>]
    ELSE [ok |-> FALSE, hint |-> <<>>]

\* The hints collected up to the first entry that fails to convert.
CollectHintsUntilError(raw_hints) ==
    LET bad == {i \in 1..Len(raw_hints) :
                   ~from_zbus(raw_hints[i].key, raw_hints[i].value).ok}
        stop == IF bad = {} THEN Len(raw_hints)
                ELSE (CHOOSE i \in bad : \A j \in bad : i <= j) - 1
    IN  [i \in 1..stop |->
            from_zbus(raw_hints[i].key, raw_hints[i].value).hint[1]]

\* raw_hints.into_iter().filter_map(|(k, v)| match Hint::from_zbus(..) {
\*     Ok(hint) => Some(hint), Err(error) => None }).collect()
\* raw_hints is the dictionary in the order into_iter() goes through it.
RECURSIVE CollectHints(_)
CollectHints(raw_hints) ==
    IF raw_hints = <<>> THEN <<>>
    ELSE LET c == from_zbus(Head(raw_hints).key, Head(raw_hints).value)
         IN  (IF c.ok THEN c.hint ELSE <<>>) \o CollectHints(Tail(raw_hints))

\* ---------------------------------------------------------- timeout policy

\* `timeout as u64`: sign extension, then the value modulo the width
AsU64(t) == t % U64Modulus

\* The policy without the clamp to minimum_timeout.
TimeoutBeforeCloseUnclamped(timeout) ==
    IF timeout < 0 THEN minimum_timeout ELSE AsU64(timeout)

\* let timeout_before_close: u64 = if timeout < 0 {..} else if .. {..} else {..}
TimeoutBeforeClose(timeout) ==
    IF timeout < 0 THEN minimum_timeout
    ELSE IF AsU64(timeout) < minimum_timeout THEN minimum_timeout
    ELSE AsU64(timeout)

\* self.count += 1 in a build without overflow checks
NextCount(c) == (c + 1) % CountModulus

\* ---------------------------------------------------------------- requests

\* A Notify method call as it arrives: its arguments, and the locals of the
\* call (count, received, the DropGuard's event, the spawned task).
NotifyCall(id, raw_actions, raw_hints, timeout) ==
    [method |-> "Notify", id |-> id, raw_actions |-> raw_actions,
     raw_hints |-> raw_hints, timeout |-> timeout, pc |-> "start", count |-> 0, received |-> <<>>,
     hcalls |-> <<>>, hstate |-> "idle", gate |-> "none", task_pc |-> "none",
     delay |-> 0, result |-> "none", reply |-> "none", reply_val |-> 0]

\* A Stop method call as it arrives.
StopCall ==
    [method |-> "Stop", id |-> 0, raw_actions |-> <<>>, raw_hints |-> <<>>,
     timeout |-> 0,
     pc |-> "start", count |-> 0, received |-> <<>>, hcalls |-> <<>>,
     hstate |-> "idle", gate |-> "none", task_pc |-> "none", delay |-> 0,
     result |-> "none", reply |-> "none", reply_val |-> 0]

\* let received = ReceivedNotification { .. }
Received(q) ==
    [id |-> q.id, actions |-> from_vec(q.raw_actions),
     hints |-> CollectHints(q.raw_hints), timeout |-> q.timeout]

Calls(m) == {r \in DOMAIN reqs : reqs[r].method = m}

ActionInvokedSignal(id, action, r) ==
    [member |-> "ActionInvoked", id |-> id, arg |-> action, by |-> r]

NotificationClosedSignal(id, reason, r) ==
    [member |-> "NotificationClosed", id |-> id, arg |-> reason, by |-> r]

\* ------------------------------------------------------------- environment

\* The bus connection breaks: from here on every send returns Err.
Disconnect ==
    /\ connected
    /\ connected' = FALSE
    /\ UNCHANGED <<count, overflow_checks, server_up, reqs, writer, readers,
                   stop_notified, main_pc, signals>>
    /\ UNCHANGED clientVars

\* ------------------------------------------------ NotificationServer::notify

\* A Notify call comes in over the connection; the object server takes the
\* interface exclusively (&mut self) and runs the body up to its first
\* suspension point: the counter, the decoding, the ReceivedNotification.
NotifyStart(inputs, max) ==
    /\ connected
    /\ server_up
    /\ Cardinality(Calls("Notify")) < max
    /\ writer = 0
    /\ readers = {}
    /\ overflow_checks' \in
           IF count = CountModulus - 1 /\ overflow_checks = "unset"
           THEN {"on", "off"} ELSE {overflow_checks}
    /\ \E in \in inputs :
        LET r == Len(reqs) + 1
            q == NotifyCall(in.id, in.raw_actions, in.raw_hints, in.timeout)
        IN  IF count = CountModulus - 1 /\ overflow_checks' = "on"
            THEN \* attempt to add with overflow: the task panics
                 /\ reqs' = Append(reqs, [q EXCEPT !.pc = "panicked"])
                 /\ server_up' = FALSE
                 /\ UNCHANGED <<count, writer>>
            ELSE /\ count' = NextCount(count)
                 /\ writer' = r
                 /\ reqs' = Append(reqs, [q EXCEPT
                        !.count = count',
                        !.received = <<Received(q)>>,
                        !.pc = IF Len(Received(q).actions) > 0
                               THEN "action_invoked" ELSE "call_handler"])
                 /\ UNCHANGED server_up
    /\ UNCHANGED <<connected, readers, stop_notified, main_pc, signals>>
    /\ UNCHANGED clientVars

\* notify without the emission of ActionInvoked.
NotifyActionInvokedSkipped(r) ==
    /\ r \in Calls("Notify")
    /\ reqs[r].pc = "action_invoked"
    /\ reqs' = [reqs EXCEPT ![r].pc = "call_handler"]
    /\ UNCHANGED <<count, overflow_checks, server_up, connected, writer,
                   readers, stop_notified, main_pc, signals>>
    /\ UNCHANGED clientVars

\* Self::action_invoked(&ctx, count, &action.tag).await?
NotifyActionInvoked(r) ==
    /\ r \in Calls("Notify")
    /\ reqs[r].pc = "action_invoked"
    /\ IF connected
       THEN /\ signals' = Append(signals, ActionInvokedSignal(
                   reqs[r].count, reqs[r].received[1].actions[1].tag, r))
            /\ reqs' = [reqs EXCEPT ![r].pc = "call_handler"]
       ELSE \* the ? returns the error: nothing after it runs
            /\ reqs' = [reqs EXCEPT ![r].pc = "returned", ![r].result = "err",
                                    ![r].received = <<>>]
            /\ UNCHANGED signals
    /\ UNCHANGED <<count, overflow_checks, server_up, connected, writer,
                   readers, stop_notified, main_pc>>
    /\ UNCHANGED clientVars

\* notify with the handler handed to a task of its own and not waited for.
NotifyCallHandlerDetached(r) ==
    /\ r \in Calls("Notify")
    /\ reqs[r].pc = "call_handler"
    /\ reqs' = [reqs EXCEPT ![r].pc = "spawned",
                            ![r].hstate = "running",
                            ![r].hcalls = Append(@, reqs[r].received[1]),
                            ![r].received = <<>>,
                            ![r].gate = "listening",
                            ![r].task_pc = "spawned"]
    /\ UNCHANGED <<count, overflow_checks, server_up, connected, writer,
                   readers, stop_notified, main_pc, signals>>
    /\ UNCHANGED clientVars

\* self.handler.call(received): the handler starts on the calling task
NotifyCallHandler(r) ==
    /\ r \in Calls("Notify")
    /\ reqs[r].pc = "call_handler"
    /\ reqs' = [reqs EXCEPT ![r].pc = "in_handler",
                            ![r].hstate = "running",
                            ![r].hcalls = Append(@, reqs[r].received[1]),
                            ![r].received = <<>>]
    /\ UNCHANGED <<count, overflow_checks, server_up, connected, writer,
                   readers, stop_notified, main_pc, signals>>
    /\ UNCHANGED clientVars

\* The handler returns; DropGuard::create() and task::spawn follow without a
\* suspension point in between.
NotifySpawn(r) ==
    /\ r \in Calls("Notify")
    /\ reqs[r].pc = "in_handler"
    /\ reqs' = [reqs EXCEPT ![r].pc = "spawned",
                            ![r].hstate = "done",
                            ![r].gate = "listening",
                            ![r].task_pc = "spawned"]
    /\ UNCHANGED <<count, overflow_checks, server_up, connected, writer,
                   readers, stop_notified, main_pc, signals>>
    /\ UNCHANGED clientVars

\* notify returning with the guard leaked (never dropped).
NotifyReturnGuardLeaked(r) ==
    /\ r \in Calls("Notify")
    /\ reqs[r].pc = "spawned"
    /\ reqs' = [reqs EXCEPT ![r].pc = "returned", ![r].result = "ok"]
    /\ UNCHANGED <<count, overflow_checks, server_up, connected, writer,
                   readers, stop_notified, main_pc, signals>>
    /\ UNCHANGED clientVars

\* Ok(count): the future completes and its locals are dropped, drop_guard
\* among them (DropGuard::drop notifies the listener).
NotifyReturn(r) ==
    /\ r \in Calls("Notify")
    /\ reqs[r].pc = "spawned"
    /\ reqs' = [reqs EXCEPT ![r].pc = "returned",
                            ![r].result = "ok",
                            ![r].gate = "notified"]
    /\ UNCHANGED <<count, overflow_checks, server_up, connected, writer,
                   readers, stop_notified, main_pc, signals>>
    /\ UNCHANGED clientVars

\* -------------------------------------------------- NotificationServer::stop

\* A Stop call comes in; the object server takes the interface shared (&self)
\* and runs the body: self.stop_listener.notify(1); true
StopRun(max) ==
    /\ connected
    /\ server_up
    /\ Cardinality(Calls("Stop")) < max
    /\ writer = 0
    /\ readers' = readers \cup {Len(reqs) + 1}
    /\ stop_notified' = TRUE
    /\ reqs' = Append(reqs, [StopCall EXCEPT !.pc = "returned",
                                              !.result = "ok"])
    /\ UNCHANGED <<count, overflow_checks, server_up, connected, writer,
                   main_pc, signals>>
    /\ UNCHANGED clientVars

\* ------------------------------------------------------ the transport's reply

\* The generated dispatch code sends what the method returned and lets go of
\* the interface.
TransportReply(r) ==
    /\ r \in DOMAIN reqs
    /\ reqs[r].pc = "returned"
    /\ server_up
    /\ reqs' = [reqs EXCEPT
           ![r].pc = "done",
           ![r].reply = IF ~connected THEN "lost"
                        ELSE IF reqs[r].result = "ok" THEN "return"
                        ELSE "error",
           ![r].reply_val = IF connected /\ reqs[r].result = "ok"
                                /\ reqs[r].method = "Notify"
                            THEN reqs[r].count ELSE 0]
    /\ writer' = IF writer = r THEN 0 ELSE writer
    /\ readers' = readers \ {r}
    /\ UNCHANGED <<count, overflow_checks, server_up, connected,
                   stop_notified, main_pc, signals>>
    /\ UNCHANGED clientVars

\* ------------------------------------------------------ the auto-close task

\* The spawned task without the timeout == 0 arm.
TaskStartAlwaysCloses(r) ==
    /\ r \in Calls("Notify")
    /\ reqs[r].task_pc = "spawned"
    /\ reqs' = [reqs EXCEPT
           ![r].task_pc = "await_gate",
           ![r].delay = TimeoutBeforeClose(reqs[r].timeout)]
    /\ UNCHANGED <<count, overflow_checks, server_up, connected, writer,
                   readers, stop_notified, main_pc, signals>>
    /\ UNCHANGED clientVars

\* The spawned task starts: if timeout == 0 it is over, else it computes
\* timeout_before_close and reaches has_returned.await.
TaskStart(r) ==
    /\ r \in Calls("Notify")
    /\ reqs[r].task_pc = "spawned"
    /\ IF reqs[r].timeout = 0
       THEN reqs' = [reqs EXCEPT ![r].task_pc = "done"]
       ELSE reqs' = [reqs EXCEPT
                ![r].task_pc = "await_gate",
                ![r].delay = TimeoutBeforeClose(reqs[r].timeout)]
    /\ UNCHANGED <<count, overflow_checks, server_up, connected, writer,
                   readers, stop_notified, main_pc, signals>>
    /\ UNCHANGED clientVars

\* has_returned.await completes once the guard's event has notified it
TaskGate(r) ==
    /\ r \in Calls("Notify")
    /\ reqs[r].task_pc = "await_gate"
    /\ reqs[r].gate = "notified"
    /\ reqs' = [reqs EXCEPT ![r].task_pc = "sleeping"]
    /\ UNCHANGED <<count, overflow_checks, server_up, connected, writer,
                   readers, stop_notified, main_pc, signals>>
    /\ UNCHANGED clientVars

\* sleep_for_timeout(timeout_before_close).await is over (no bound on how
\* long the other processes take meanwhile), then
\* Self::notification_closed(&ctx_copy, count, CloseReason::Expired)
\*     .await.unwrap()
TaskClose(r) ==
    /\ r \in Calls("Notify")
    /\ reqs[r].task_pc = "sleeping"
    /\ IF connected
       THEN /\ signals' = Append(signals, NotificationClosedSignal(
                   reqs[r].count, Expired, r))
            /\ reqs' = [reqs EXCEPT ![r].task_pc = "done"]
       ELSE \* unwrap() of the Err: the task panics
            /\ reqs' = [reqs EXCEPT ![r].task_pc = "panicked"]
            /\ UNCHANGED signals
    /\ UNCHANGED <<count, overflow_checks, server_up, connected, writer,
                   readers, stop_notified, main_pc>>
    /\ UNCHANGED clientVars

\* ------------------------------------------------------ internal::start_with

\* stopped.wait() returns once stop_listener has notified it; Ok(()).
MainReturn ==
    /\ main_pc = "waiting"
    /\ stop_notified
    /\ main_pc' = "returned"
    /\ UNCHANGED <<count, overflow_checks, server_up, connected, reqs, writer,
                   readers, stop_notified, signals>>
    /\ UNCHANGED clientVars

\* --------------------------------------------- client: the action codec

\* The (tag, label) pairs an application may hand to the client.
Tags == {"default", "clicked"}
Labels == {"Open", "Dismiss"}

RECURSIVE SeqsUpTo(_, _)
SeqsUpTo(S, n) ==
    IF n = 0 THEN {<<>>}
    ELSE LET shorter == SeqsUpTo(S, n - 1)
         IN  shorter \cup {Append(q, x) : q \in shorter, x \in S}

\* Notification::action(identifier, label): pushes the two strings, in this
\* order, onto notification.actions
notification_action(actions, pair) == actions \o <<pair[1], pair[2]>>

RECURSIVE BuildActions(_)
BuildActions(pairs) ==
    IF pairs = <<>> THEN <<>>
    ELSE notification_action(BuildActions(SubSeq(pairs, 1, Len(pairs) - 1)),
                             pairs[Len(pairs)])

\* MessageItem::Array of the given signature
MessageItemArray(items, sig) == [sig |-> sig, items |-> items]

\* pack_actions
pack_actions(actions) ==
    IF actions # <<>>
    THEN \* every action.to_owned().into() is a MessageItem::Str, so new_array
         \* is Ok
         MessageItemArray([i \in 1..Len(actions) |-> actions[i]], "as")
    ELSE MessageItemArray(<<>>, "as")

NoCodec == [stage |-> "none", pairs |-> <<>>, actions |-> <<>>,
            wire |-> MessageItemArray(<<>>, "as"), decoded |-> <<>>]

\* The application builds the notification: one action(..) call per pair.
CodecBuild ==
    /\ codec.stage = "new"
    /\ codec' = [codec EXCEPT !.stage = "built",
                              !.actions = BuildActions(codec.pairs)]
    /\ UNCHANGED <<serverVars, sessions, bus>>

\* send_notification_via_connection_at_bus: pack_actions(notification)
CodecPack ==
    /\ codec.stage = "built"
    /\ codec' = [codec EXCEPT !.stage = "packed",
                              !.wire = pack_actions(codec.actions)]
    /\ UNCHANGED <<serverVars, sessions, bus>>

\* notify: let actions = Action::from_vec(&raw_actions)
CodecDecode ==
    /\ codec.stage = "packed"
    /\ codec' = [codec EXCEPT !.stage = "decoded",
                              !.decoded = from_vec(codec.wire.items)]
    /\ UNCHANGED <<serverVars, sessions, bus>>

\* --------------------------------- client: wait_for_action_signal

NOTIFICATION_OBJECTPATH == "/org/freedesktop/Notifications"
NOTIFICATION_INTERFACE == "org.freedesktop.Notifications"

\* MessageItem::UInt32 and MessageItem::Str
UInt32(u) == [t |-> "UInt32", u |-> u, s |-> ""]
Str(x) == [t |-> "Str", u |-> 0, s |-> x]

\* What connection.iter(1000) yields.
NothingItem ==
    [kind |-> "Nothing", path |-> "", interface |-> "", member |-> "",
     items |-> <<>>]
MethodCallItem ==
    [kind |-> "MethodCall", path |-> NOTIFICATION_OBJECTPATH,
     interface |-> NOTIFICATION_INTERFACE, member |-> "Notify",
     items |-> <<>>]
SignalItem(path, interface, member, items) ==
    [kind |-> "Signal", path |-> path, interface |-> interface,
     member |-> member, items |-> items]

\* The ids, action keys and reasons that signals on the bus carry.
WireIds == {1, 2}
WireKeys == {"default"}
WireReasons == {1, 4}

ArgLists ==
    {<<>>}
    \cup {<<UInt32(i)>> : i \in WireIds}
    \cup {<<UInt32(i), Str(k)>> : i \in WireIds, k \in WireKeys}
    \cup {<<UInt32(i), UInt32(x)>> : i \in WireIds, x \in WireReasons}
    \cup {<<Str(k), Str(k)>> : k \in WireKeys}

BusItems ==
    {NothingItem, MethodCallItem}
    \cup {SignalItem(w[1], w[2], m, a) :
            w \in { <<NOTIFICATION_OBJECTPATH, NOTIFICATION_INTERFACE>>,
                     <<"/other", NOTIFICATION_INTERFACE>>,
                     <<NOTIFICATION_OBJECTPATH, "org.example.Other">> },
            m \in {"ActionInvoked", "NotificationClosed", "NameAcquired"},
            a \in ArgLists}

\* impl From<u32> for CloseReason
CloseReasonFrom(raw) ==
    CASE raw = 1 -> [variant |-> "Expired", code |-> 1]
      [] raw = 2 -> [variant |-> "Dismissed", code |-> 2]
      [] raw = 3 -> [variant |-> "CloseAction", code |-> 3]
      [] OTHER -> [variant |-> "Other", code |-> raw]

\* ActionResponse::Custom(action) and ActionResponse::Closed(reason)
Custom(action) ==
    [kind |-> "Custom", action |-> action,
     reason |-> [variant |-> "", code |-> 0]]
Closed(reason) == [kind |-> "Closed", action |-> "", reason |-> reason]

\* One pass through the body of `for item in connection.iter(1000)`:
\* what the item does to the loop. The outcome is "continue" (next item),
\* "break" (the handler was called with `response`) or "panic".
LoopBody(id, item) ==
    LET continue == [outcome |-> "continue", response |-> <<>>]
        panic == [outcome |-> "panic", response |-> <<>>]
        break(resp) == [outcome |-> "break", response |-> <<resp>>]
        items == item.items
    IN  IF item.kind # "Signal" THEN continue
        ELSE IF /\ item.member = "ActionInvoked"
                /\ item.path = NOTIFICATION_OBJECTPATH
                /\ item.interface = NOTIFICATION_INTERFACE
        THEN \* (&items[0], &items[1]): indexing is bounds-checked
             IF Len(items) < 2 THEN panic
             ELSE IF /\ items[1].t = "UInt32"
                     /\ items[2].t = "Str"
                     /\ items[1].u = id
             THEN break(Custom(items[2].s))
             ELSE continue
        ELSE IF /\ item.member = "NotificationClosed"
                /\ item.path = NOTIFICATION_OBJECTPATH
                /\ item.interface = NOTIFICATION_INTERFACE
        THEN IF Len(items) < 2 THEN panic
             ELSE IF /\ items[1].t = "UInt32"
                     /\ items[2].t = "UInt32"
                     /\ items[1].u = id
             THEN break(Closed(CloseReasonFrom(items[2].u)))
             ELSE continue
        ELSE continue

\* A run of wait_for_action_signal(connection, id, handler) after its two
\* add_match calls: nothing taken from the connection yet.
Session(id) ==
    [id |-> id, state |-> "waiting", calls |-> <<>>, last |-> NothingItem,
     taken |-> 0]

NoSessions == <<>>

\* The loop without the `break` after handler.call.
ClientPollNoBreak(s, item) ==
    /\ s \in DOMAIN sessions
    /\ sessions[s].state = "waiting"
    /\ LET out == LoopBody(sessions[s].id, item)
       IN  sessions' = [sessions EXCEPT
               ![s].last = item,
               ![s].taken = 1,
               ![s].calls = @ \o out.response,
               ![s].state = IF out.outcome = "panic" THEN "panicked"
                            ELSE "waiting"]
    /\ UNCHANGED <<serverVars, codec>>

\* The loop takes the next item from its connection and runs the body on it.
ClientPoll(s, item) ==
    /\ s \in DOMAIN sessions
    /\ sessions[s].state = "waiting"
    /\ LET out == LoopBody(sessions[s].id, item)
       IN  sessions' = [sessions EXCEPT
               ![s].last = item,
               ![s].taken = 1,
               ![s].calls = @ \o out.response,
               ![s].state = CASE out.outcome = "continue" -> "waiting"
                              [] out.outcome = "break" -> "resolved"
                              [] OTHER -> "panicked"]
    /\ UNCHANGED <<serverVars, codec>>

\* ------------------------------ client: send, subscribe, wait (end to end)

\* The bus daemon: how many of the server's signals it has routed, whether
\* the client's match rules are in place, and the signals it has queued on
\* the client's connection.
NoBus == [routed |-> 0, matched |-> FALSE, inbox |-> <<>>]

\* A signal of the server as the client's connection yields it.
WireSignal(sig) ==
    SignalItem(NOTIFICATION_OBJECTPATH, NOTIFICATION_INTERFACE, sig.member,
               IF sig.member = "ActionInvoked"
               THEN <<UInt32(sig.id), Str(sig.arg)>>
               ELSE <<UInt32(sig.id), UInt32(sig.arg)>>)

\* The daemon routes the server's next signal: a broadcast goes to the
\* connections that have a matching rule at that moment, and to no other.
BusRoute ==
    /\ bus.routed < Len(signals)
    /\ bus' = [bus EXCEPT
           !.routed = @ + 1,
           !.inbox = IF bus.matched
                     THEN Append(@, WireSignal(signals[bus.routed + 1]))
                     ELSE @]
    /\ UNCHANGED <<serverVars, sessions, codec>>

\* send_with_reply_and_block has returned Ok(id) for call r, and
\* wait_for_action_signal(connection, id, handler) makes its two add_match
\* calls.
ClientSubscribe(r) ==
    /\ r \in Calls("Notify")
    /\ reqs[r].reply = "return"
    /\ sessions = NoSessions
    /\ sessions' = <<Session(reqs[r].reply_val)>>
    /\ bus' = [bus EXCEPT !.matched = TRUE]
    /\ UNCHANGED <<serverVars, codec>>

\* connection.iter(1000) yields the next queued signal to the loop.
ClientTake(s) ==
    /\ bus.inbox # <<>>
    /\ ClientPoll(s, Head(bus.inbox))
    /\ bus' = [bus EXCEPT !.inbox = Tail(@)]

\* ---------------------------------------------------------- specifications

RequestIds == 1..(MaxNotify + MaxStop)

\* The replaces_id, raw_actions, raw_hints and timeout arguments of a call.
NotifyArgs(id, raw_actions, raw_hints, timeout) ==
    [id |-> id, raw_actions |-> raw_actions, raw_hints |-> raw_hints,
     timeout |-> timeout]

NotifyInputs ==
    { NotifyArgs(0, <<>>, <<>>, 0),
      NotifyArgs(0, <<"default", "Open">>, <<>>, -1),
      NotifyArgs(2, <<>>, <<>>, 50),
      NotifyArgs(2, <<"default", "Open">>, <<>>, 0) }

\* After NotificationServer::with_handler, stop_listener.listen() and the
\* connection's build(): start_with is about to block in stopped.wait().
Init ==
    /\ count = 0
    /\ overflow_checks = "unset"
    /\ server_up = TRUE
    /\ connected = TRUE
    /\ reqs = <<>>
    /\ writer = 0
    /\ readers = {}
    /\ stop_notified = FALSE
    /\ main_pc = "waiting"
    /\ signals = <<>>
    /\ sessions = NoSessions
    /\ codec = NoCodec
    /\ bus = NoBus

Next ==
    \/ NotifyStart(NotifyInputs, MaxNotify)
    \/ StopRun(MaxStop)
    \/ Disconnect
    \/ MainReturn
    \/ \E r \in RequestIds :
        \/ NotifyActionInvoked(r)
        \/ NotifyCallHandler(r)
        \/ NotifySpawn(r)
        \/ NotifyReturn(r)
        \/ TransportReply(r)
        \/ TaskStart(r)
        \/ TaskGate(r)
        \/ TaskClose(r)

Spec == Init /\ [][Next]_vars

\* One Notify call, for every value of the timeout argument.
TimeoutInputs == {NotifyArgs(0, <<>>, <<>>, t) : t \in I32Min..I32Max}

TimeoutNext ==
    \/ NotifyStart(TimeoutInputs, 1)
    \/ \E r \in {1} :
        \/ NotifyCallHandler(r)
        \/ NotifySpawn(r)
        \/ NotifyReturn(r)
        \/ TransportReply(r)
        \/ TaskStart(r)
        \/ TaskGate(r)
        \/ TaskClose(r)

TimeoutSpec == Init /\ [][TimeoutNext]_vars

\* More Notify calls than the counter has values.
WrapInputs == {NotifyArgs(0, <<>>, <<>>, 0)}

WrapNext ==
    \/ NotifyStart(WrapInputs, CountModulus + 1)
    \/ \E r \in 1..(CountModulus + 1) :
        \/ NotifyCallHandler(r)
        \/ NotifySpawn(r)
        \/ NotifyReturn(r)
        \/ TransportReply(r)
        \/ TaskStart(r)

WrapSpec == Init /\ [][WrapNext]_vars

\* The Notify calls of the main specification with the scheduler's fairness:
\* a spawned task that can take a step eventually takes it.
LiveNext ==
    \/ NotifyStart(NotifyInputs, MaxNotify)
    \/ Disconnect
    \/ \E r \in 1..MaxNotify :
        \/ NotifyActionInvoked(r)
        \/ NotifyCallHandler(r)
        \/ NotifySpawn(r)
        \/ NotifyReturn(r)
        \/ TransportReply(r)
        \/ TaskStart(r)
        \/ TaskGate(r)
        \/ TaskClose(r)

TaskFairness ==
    \A r \in 1..MaxNotify :
        /\ WF_vars(TaskStart(r))
        /\ WF_vars(TaskGate(r))
        /\ WF_vars(TaskClose(r))

LiveSpec == Init /\ [][LiveNext]_vars /\ TaskFairness

\* An application's action list, of up to MaxActions pairs, on its way
\* through pack_actions, the bus and Action::from_vec.
CodecInit ==
    /\ Init!1 /\ Init!2 /\ Init!3 /\ Init!4 /\ Init!5
    /\ Init!6 /\ Init!7 /\ Init!8 /\ Init!9 /\ Init!10
    /\ sessions = NoSessions
    /\ codec \in {[NoCodec EXCEPT !.stage = "new", !.pairs = p] :
                     p \in SeqsUpTo(Tags \X Labels, MaxActions)}
    /\ bus = NoBus

CodecNext == CodecBuild \/ CodecPack \/ CodecDecode

CodecSpec == CodecInit /\ [][CodecNext]_vars

\* Two runs of wait_for_action_signal, each on a connection of its own that
\* may deliver any item.
SessionIds == {1, 2}

ClientInit ==
    /\ Init!1 /\ Init!2 /\ Init!3 /\ Init!4 /\ Init!5
    /\ Init!6 /\ Init!7 /\ Init!8 /\ Init!9 /\ Init!10
    /\ sessions \in {<<Session(a), Session(b)>> :
                        a \in {1}, b \in SessionIds}
    /\ codec = NoCodec
    /\ bus = NoBus

ClientNext ==
    \E s \in {1, 2}, item \in BusItems :
        ClientPoll(s, item) /\ UNCHANGED bus

ClientSpec == ClientInit /\ [][ClientNext]_vars

\* More Notify calls than the counter has values, each with an action and an
\* auto-close timeout.
ReuseInputs == {NotifyArgs(0, <<"default", "Open">>, <<>>, -1)}

ReuseNext ==
    \/ NotifyStart(ReuseInputs, CountModulus + 1)
    \/ \E r \in 1..(CountModulus + 1) :
        \/ NotifyActionInvoked(r)
        \/ NotifyCallHandler(r)
        \/ NotifySpawn(r)
        \/ NotifyReturn(r)
        \/ TransportReply(r)
        \/ TaskStart(r)
        \/ TaskGate(r)
        \/ TaskClose(r)

ReuseSpec == Init /\ [][ReuseNext]_vars

\* Any wire array of up to MaxActions + 1 strings as the raw_actions argument
\* of notify.
WireStrings == {"default", "Open", "clicked"}

WireInit ==
    /\ Init!1 /\ Init!2 /\ Init!3 /\ Init!4 /\ Init!5
    /\ Init!6 /\ Init!7 /\ Init!8 /\ Init!9 /\ Init!10
    /\ sessions = NoSessions
    /\ codec \in {[NoCodec EXCEPT !.stage = "packed",
                                  !.wire = MessageItemArray(w, "as")] :
                     w \in SeqsUpTo(WireStrings, MaxActions + 1)}
    /\ bus = NoBus

WireNext == CodecDecode

WireSpec == WireInit /\ [][WireNext]_vars

\* One Notify call for every raw_hints dictionary of up to MaxHints entries,
\* in every order into_iter() may go through it, with and without an action.
HintKeys == {"urgency", "category", "x-app"}
HintValues == {Value("U8", "1"), Value("Str", "device"), Value("Bool", "true")}

HintDicts ==
    {h \in SeqsUpTo({HintEntry(k, v) : k \in HintKeys, v \in HintValues},
                    MaxHints) :
        \A i, j \in 1..Len(h) : h[i].key = h[j].key => i = j}

HintInputs ==
    {NotifyArgs(0, a, h, 0) : a \in {<<>>, <<"default", "Open">>},
                              h \in HintDicts}

HintNext ==
    \/ NotifyStart(HintInputs, 1)
    \/ Disconnect
    \/ \E r \in {1} :
        \/ NotifyActionInvoked(r)
        \/ NotifyCallHandler(r)
        \/ NotifySpawn(r)
        \/ NotifyReturn(r)
        \/ TransportReply(r)
        \/ TaskStart(r)

HintSpec == Init /\ [][HintNext]_vars

\* One client sends one notification and waits for its action or its close
\* on the connection it sent it on; every process keeps running.
EndToEndInputs ==
    {NotifyArgs(0, a, <<>>, t) : a \in {<<>>, <<"default", "Open">>},
                                 t \in {-1, 0, 5, 50}}

EndToEndNext ==
    \/ NotifyStart(EndToEndInputs, 1)
    \/ BusRoute
    \/ \E r \in {1} :
        \/ NotifyActionInvoked(r)
        \/ NotifyCallHandler(r)
        \/ NotifySpawn(r)
        \/ NotifyReturn(r)
        \/ TransportReply(r)
        \/ TaskStart(r)
        \/ TaskGate(r)
        \/ TaskClose(r)
        \/ ClientSubscribe(r)
    \/ \E s \in {1} : ClientTake(s)

EndToEndFairness ==
    /\ WF_vars(BusRoute)
    /\ \A r \in {1} :
        /\ WF_vars(NotifyActionInvoked(r))
        /\ WF_vars(NotifyCallHandler(r))
        /\ WF_vars(NotifySpawn(r))
        /\ WF_vars(NotifyReturn(r))
        /\ WF_vars(TransportReply(r))
        /\ WF_vars(TaskStart(r))
        /\ WF_vars(TaskGate(r))
        /\ WF_vars(TaskClose(r))
        /\ WF_vars(ClientSubscribe(r))
    /\ \A s \in {1} : WF_vars(ClientTake(s))

EndToEndSpec == Init /\ [][EndToEndNext]_vars /\ EndToEndFairness

\* ------------------------------------------------------------------ claims

NotifyCalls == Calls("Notify")

\* The NotificationClosed signals the task of request r has emitted.
ClosedBy(r) ==
    {i \in DOMAIN signals :
        signals[i].member = "NotificationClosed" /\ signals[i].by = r}

\* C1: a NotificationClosed signal is on the bus only if the reply to the
\* Notify call it belongs to has been sent before it.
C1_CloseNeverBeforeReply ==
    \A i \in DOMAIN signals :
        signals[i].member = "NotificationClosed"
            => reqs[signals[i].by].reply = "return"

\* C2: the ids returned by Notify are strictly increasing in the order the
\* calls are processed, hence pairwise distinct, and the first one is 1.
C2_IdsDistinctIncreasing ==
    LET returned == {r \in NotifyCalls : reqs[r].result = "ok"}
    IN  /\ \A a, b \in returned : a < b => reqs[a].count < reqs[b].count
        /\ \A a \in returned : a = 1 => reqs[a].count = 1

\* C3: decoding the packed action list with Action::from_vec gives back the
\* application's (tag, label) pairs, in order.
C3_ActionsRoundTrip ==
    codec.stage = "decoded" =>
        codec.decoded = [i \in 1..Len(codec.pairs) |->
                            [tag |-> codec.pairs[i][1],
                             description |-> codec.pairs[i][2]]]

\* C4: once the task of a Notify call has evaluated the timeout, its delay
\* is the one of the TimeoutPolicy table with M = 10: no timer and no close
\* signal for t = 0, M for t < 0 and for 0 < t < M, t for t >= M.
C4_TimeoutPolicyTable ==
    \A r \in NotifyCalls :
        LET t == reqs[r].timeout
            M == 10
        IN  /\ reqs[r].task_pc \in {"await_gate", "sleeping", "panicked"}
                => t # 0
            /\ ClosedBy(r) # {} => t # 0
            /\ reqs[r].task_pc \notin {"none", "spawned"} =>
                /\ t = 0 => reqs[r].task_pc = "done" /\ reqs[r].delay = 0
                /\ t < 0 => reqs[r].delay = M
                /\ (0 < t /\ t < M) => reqs[r].delay = M
                /\ t >= M => reqs[r].delay = t

\* C4 witness: a timeout between 0 and M was clamped up to M and the close
\* signal went out after it.
C4_Witness ==
    \E r \in NotifyCalls :
        /\ reqs[r].timeout = 5
        /\ reqs[r].delay = 10
        /\ ClosedBy(r) # {}

\* C5: the task of a Notify call with timeout == 0 never waits, sleeps or
\* emits: no NotificationClosed signal on the bus stems from such a call.
C5_NoCloseForTimeoutZero ==
    /\ \A i \in DOMAIN signals :
           signals[i].member = "NotificationClosed"
               => reqs[signals[i].by].timeout # 0
    /\ \A r \in NotifyCalls :
           reqs[r].timeout = 0
               => /\ reqs[r].task_pc \in {"none", "spawned", "done"}
                  /\ ClosedBy(r) = {}

\* C5 witness: a call with timeout == 0 was answered and its task is over,
\* while the task of another call did close its notification.
C5_Witness ==
    \E r, q \in NotifyCalls :
        /\ reqs[r].timeout = 0
        /\ reqs[r].reply = "return"
        /\ reqs[r].task_pc = "done"
        /\ ClosedBy(q) # {}

\* The steps the auto-close task takes, in the order it takes them.
TaskOrder ==
    { <<"none", "spawned">>, <<"spawned", "done">>,
      <<"spawned", "await_gate">>, <<"await_gate", "sleeping">>,
      <<"sleeping", "done">>, <<"sleeping", "panicked">> }

\* What holds of every NotificationClosed signal of request r at any time.
ClosedAtMostOnce ==
    \A r \in NotifyCalls :
        /\ Cardinality(ClosedBy(r)) <= 1
        /\ \A i \in ClosedBy(r) :
            /\ signals[i].id = reqs[r].count
            /\ signals[i].arg = Expired
            /\ reqs[r].gate = "notified"
            /\ reqs[r].task_pc = "done"
            /\ reqs[r].delay = TimeoutBeforeClose(reqs[r].timeout)

\* C6 as stated: every answered Notify call with timeout != 0 is eventually
\* followed by its NotificationClosed signal.
C6_AlwaysEventuallyClosed ==
    \A r \in 1..MaxNotify :
        (r \in NotifyCalls /\ reqs[r].reply = "return"
            /\ reqs[r].timeout # 0)
        ~> (ClosedBy(r) # {})

\* C6 as amended: under fair scheduling of the task, every answered Notify
\* call with timeout != 0 is eventually followed by its NotificationClosed
\* signal (its id, reason Expired), or by the panic of the task when the
\* emission fails; the signal is emitted at most once, and the task waits
\* for the gate, then sleeps, then emits.
C6_EventuallyClosedOrPanicked ==
    /\ []ClosedAtMostOnce
    /\ [][\A r \in NotifyCalls :
              reqs'[r].task_pc # reqs[r].task_pc
                  => <<reqs[r].task_pc, reqs'[r].task_pc>> \in TaskOrder]_vars
    /\ \A r \in 1..MaxNotify :
        (r \in NotifyCalls /\ reqs[r].reply = "return"
            /\ reqs[r].timeout # 0)
        ~> (ClosedBy(r) # {}
              \/ (r \in NotifyCalls /\ reqs[r].task_pc = "panicked"))

\* C6 witness: an answered call with timeout != 0 whose task has emitted the
\* signal after the gate and the sleep.
C6_Witness ==
    \E r \in NotifyCalls :
        /\ reqs[r].reply = "return"
        /\ reqs[r].timeout # 0
        /\ reqs[r].task_pc = "done"
        /\ ClosedBy(r) # {}

\* C7: a Notify call that has its reply had its handler called, once and
\* with the ReceivedNotification built from its arguments, and the handler
\* has returned; before and during the handler no reply has reached the
\* client.
C7_HandlerBeforeReply ==
    \A r \in NotifyCalls :
        /\ reqs[r].reply \in {"return", "error"}
            => /\ reqs[r].hstate = "done"
               /\ reqs[r].hcalls = <<Received(reqs[r])>>
        /\ reqs[r].hstate \in {"idle", "running"}
            => reqs[r].reply \in {"none", "lost"}

\* C7 witness: a reply is out and the handler is done.
C7_Witness ==
    \E r \in NotifyCalls :
        /\ reqs[r].reply = "return"
        /\ reqs[r].hstate = "done"
        /\ Len(reqs[r].hcalls[1].actions) = 1

\* ActionInvoked(n, key) or NotificationClosed(n, reason) at the expected
\* object path and interface.
MatchingSignal(n, item) ==
    /\ item.kind = "Signal"
    /\ item.path = NOTIFICATION_OBJECTPATH
    /\ item.interface = NOTIFICATION_INTERFACE
    /\ Len(item.items) >= 2
    /\ item.items[1] = UInt32(n)
    /\ \/ item.member = "ActionInvoked" /\ item.items[2].t = "Str"
       \/ item.member = "NotificationClosed" /\ item.items[2].t = "UInt32"

\* The response the handler is owed for a matching signal.
ResponseTo(item) ==
    IF item.member = "ActionInvoked"
    THEN Custom(item.items[2].s)
    ELSE Closed(CloseReasonFrom(item.items[2].u))

\* C8: after any item that is not a matching signal the loop is still
\* waiting and the handler has not been called.
C8_NonMatchingLeavesWaiting ==
    \A s \in DOMAIN sessions :
        (sessions[s].taken = 1
            /\ ~MatchingSignal(sessions[s].id, sessions[s].last))
        => (sessions[s].state = "waiting" /\ sessions[s].calls = <<>>)

\* C9: a run of the loop calls the handler at most once; it has resolved
\* exactly when the last item it took is a matching signal, the one call
\* being the response to that signal; and once it is over it takes no
\* further item.
C9_ResolvesOnce ==
    /\ [](\A s \in DOMAIN sessions :
            /\ Len(sessions[s].calls) <= 1
            /\ sessions[s].state = "resolved" <=> Len(sessions[s].calls) = 1
            /\ sessions[s].state = "resolved" <=>
                   (sessions[s].taken = 1
                       /\ MatchingSignal(sessions[s].id, sessions[s].last))
            /\ sessions[s].state = "resolved" =>
                   sessions[s].calls = <<ResponseTo(sessions[s].last)>>)
    /\ [][\A s \in DOMAIN sessions :
              sessions[s].state # "waiting" => sessions'[s] = sessions[s]]_vars

\* C9 witness: one run has resolved on NotificationClosed for its id while
\* the other, which took an item too, is still waiting.
C9_Witness ==
    \E s, o \in DOMAIN sessions :
        /\ sessions[s].state = "resolved"
        /\ sessions[s].calls[1].kind = "Closed"
        /\ sessions[s].calls[1].reason.variant = "Expired"
        /\ sessions[o].state = "waiting"
        /\ sessions[o].last.kind = "Signal"

\* C10: start_with has returned only if every method call the server took
\* on has been completed.
C10_ReturnsAfterInFlight ==
    main_pc = "returned" =>
        \A r \in DOMAIN reqs : reqs[r].pc \in {"done", "panicked"}

\* C11: start_with has returned (the accept loop is over) only if every Stop
\* call has had its acknowledgement sent.
C11_StopAckBeforeExit ==
    main_pc = "returned" =>
        \A r \in Calls("Stop") : reqs[r].reply = "return"

\* C12: a signal that follows a NotificationClosed signal on the bus does not
\* carry the id of that NotificationClosed signal.
C12_NoSignalAfterClosed ==
    \A i, j \in DOMAIN signals :
        (i < j /\ signals[i].member = "NotificationClosed")
            => signals[j].id # signals[i].id

\* C13: the id returned to a Notify call that submitted a non-zero id is the
\* submitted id.
C13_ReplacesIdReused ==
    \A r \in NotifyCalls :
        (reqs[r].reply = "return" /\ reqs[r].id # 0)
            => reqs[r].reply_val = reqs[r].id

\* C14: Action::from_vec on a wire array of n strings returns floor(n/2)
\* actions, the i-th made of the elements 2i-1 and 2i of the array.
C14_PairsWithoutOverlap ==
    codec.stage = "decoded" =>
        LET raw == codec.wire.items
        IN  /\ Len(codec.decoded) = Len(raw) \div 2
            /\ \A i \in 1..Len(codec.decoded) :
                   codec.decoded[i] = [tag |-> raw[2 * i - 1],
                                       description |-> raw[2 * i]]

\* The hints of a raw_hints dictionary that convert, in the dictionary's
\* order.
Converted(raw_hints) ==
    LET ok(e) == from_zbus(e.key, e.value).ok
        kept == SelectSeq(raw_hints, ok)
    IN  [i \in 1..Len(kept) |-> from_zbus(kept[i].key, kept[i].value).hint[1]]

\* C15: whatever hints fail to convert, the ReceivedNotification carries
\* exactly the hints that converted; a call fails only when the emission of
\* ActionInvoked does, never because of a hint; a call without actions
\* always has its handler called once and returns Ok; and a reply carries
\* the id assigned to the call.
C15_BadHintsDropped ==
    \A r \in NotifyCalls :
        /\ \A i \in 1..Len(reqs[r].received) :
               reqs[r].received[i].hints = Converted(reqs[r].raw_hints)
        /\ \A i \in 1..Len(reqs[r].hcalls) :
               reqs[r].hcalls[i].hints = Converted(reqs[r].raw_hints)
        /\ reqs[r].result = "err"
               => (~connected /\ from_vec(reqs[r].raw_actions) # <<>>)
        /\ (reqs[r].pc \in {"returned", "done"}
                /\ from_vec(reqs[r].raw_actions) = <<>>)
               => (reqs[r].result = "ok" /\ Len(reqs[r].hcalls) = 1)
        /\ reqs[r].reply = "return"
               => (Len(reqs[r].hcalls) = 1
                      /\ reqs[r].reply_val = reqs[r].count)

\* C15 witness: a call with one hint that converts and one that does not was
\* answered after its handler got the one hint.
C15_Witness ==
    \E r \in NotifyCalls :
        /\ Len(reqs[r].raw_hints) = 2
        /\ ~from_zbus(reqs[r].raw_hints[1].key, reqs[r].raw_hints[1].value).ok
        /\ reqs[r].reply = "return"
        /\ Len(reqs[r].hcalls) = 1
        /\ Len(reqs[r].hcalls[1].hints) = 1

\* C16: a Notify call that notify has returned from, on whatever path, had
\* its handler called exactly once, with the ReceivedNotification built for
\* it.
C16_OneHandlerCallPerRequest ==
    \A r \in NotifyCalls :
        /\ Len(reqs[r].hcalls) <= 1
        /\ reqs[r].pc \in {"returned", "done"}
               => reqs[r].hcalls = <<Received(reqs[r])>>

\* The ActionInvoked signals request r has emitted.
InvokedBy(r) ==
    {i \in DOMAIN signals :
        signals[i].member = "ActionInvoked" /\ signals[i].by = r}

C18_NeverIdZero ==
    \A r \in NotifyCalls : reqs[r].result = "ok" => reqs[r].count # 0

\* C20: the id field of the ReceivedNotification the handler got is the id
\* returned in the reply, and the id of every signal emitted for the call.
C20_ReceivedIdIsReturnedId ==
    \A r \in NotifyCalls :
        \A i \in 1..Len(reqs[r].hcalls) :
            /\ reqs[r].reply = "return"
                   => reqs[r].hcalls[i].id = reqs[r].reply_val
            /\ \A k \in DOMAIN signals :
                   signals[k].by = r => signals[k].id = reqs[r].hcalls[i].id

\* C19: a client whose notification with timeout != 0 was answered
\* eventually has the handler of its correlation loop called.
C19_ClientEventuallyResolves ==
    \A r \in {1} :
        (r \in NotifyCalls /\ reqs[r].reply = "return"
            /\ reqs[r].timeout # 0)
        ~> (\E s \in DOMAIN sessions :
               sessions[s].state = "resolved" /\ Len(sessions[s].calls) = 1)

====
